---- MODULE Spec2Model ----
(***************************************************************************)
(* A model of the fixed-size circular deque Ring[T] of ring.go.            *)
(*                                                                         *)
(* The ring is the record [buf, head, tail, count]; buf is the backing     *)
(* slice, a function on 0..len(buf)-1.  Every method is an operator from   *)
(* the ring (and the arguments) to a result [r, ret, err]: the ring after  *)
(* the call, the returned values (a sequence: <<>> for no value) and the   *)
(* panic, if any ("none" when the call returns).  The type argument T is   *)
(* bool, whose zero value is false: the code never inspects an element, so *)
(* two values tell every arrangement of the elements apart.                *)
(***************************************************************************)
EXTENDS Integers, Sequences, FiniteSets, TLC

\* Largest capacity given to New and Resize.
MaxCap == 4
\* Rotate is called with -MaxRot..MaxRot.
MaxRot == 5
\* Longest run of consecutive pushes that is counted.
MaxPushes == 5

\* var zero T
Zero == FALSE

\* The values of T.
Elems == BOOLEAN
Caps == 0..MaxCap
\* Indexes handed to At, Set, Insert and Remove: valid ones and both kinds
\* of invalid ones.
Indexes == (0 - 1)..(MaxCap + 1)
Rotations == (0 - MaxRot)..MaxRot
\* A predicate func(T) bool is the set of the elements it accepts.
Preds == SUBSET Elems

VARIABLES buf, head, tail, count, call, ret, err, pre, pushes, trk

vars == <<buf, head, tail, count, call, ret, err, pre, pushes, trk>>

\* The Ring struct as one value.
Ring(b, h, t, c) == [buf |-> b, head |-> h, tail |-> t, count |-> c]

\* The ring in the current state.
R == Ring(buf, head, tail, count)

Min(a, b) == IF a < b THEN a ELSE b

\* Go's % truncates toward zero: the result has the sign of the dividend.
GoMod(a, b) == IF a >= 0 THEN a % b ELSE 0 - ((0 - a) % b)

\* A call that returns (with the values vs) and a call that panics.
Ok(r, vs) == [r |-> r, ret |-> vs, err |-> "none"]
Panic(r, kind) == [r |-> r, ret |-> <<>>, err |-> kind]

\* make([]T, capacity)
MakeBuf(capacity) == [i \in 0..(capacity - 1) |-> Zero]

New(capacity) == Ring(MakeBuf(capacity), 0, 0, 0)

\* len(r.buf)
Cap(r) == Cardinality(DOMAIN r.buf)

RingLen(r) == r.count

Full(r) == r.count = Cap(r)

\* prev returns the previous buffer position wrapping around buffer.
\* Divides by zero when len(r.buf) is 0: callers test that first.
prev(r, i) == (i - 1 + Cap(r)) % Cap(r)

\* next returns the next buffer position wrapping around buffer.
next(r, i) == (i + 1) % Cap(r)

\* PushBack that does not move head when the ring is full.
PushBackKeepsHead(r, elem) ==
    IF r.tail \notin DOMAIN r.buf
    THEN Panic(r, "runtime")
    ELSE LET r1 == [r EXCEPT !.buf[r.tail] = elem, !.tail = next(r, r.tail)]
         IN  IF r.count = Cap(r)
             THEN Ok(r1, <<>>)
             ELSE Ok([r1 EXCEPT !.count = r.count + 1], <<>>)

PushBack(r, elem) ==
    IF r.tail \notin DOMAIN r.buf
    THEN Panic(r, "runtime")
    ELSE LET r1 == [r EXCEPT !.buf[r.tail] = elem, !.tail = next(r, r.tail)]
         IN  IF r.count = Cap(r)
             THEN Ok([r1 EXCEPT !.head = next(r, r.head)], <<>>)
             ELSE Ok([r1 EXCEPT !.count = r.count + 1], <<>>)

\* PushFront that increments count without testing for a full ring.
PushFrontAlwaysCounts(r, elem) ==
    IF Cap(r) = 0
    THEN Panic(r, "runtime")
    ELSE LET h == prev(r, r.head)
         IN  Ok([r EXCEPT !.head = h, !.buf[h] = elem, !.count = r.count + 1],
                <<>>)

PushFront(r, elem) ==
    IF Cap(r) = 0
    THEN Panic(r, "runtime")
    ELSE LET h  == prev(r, r.head)
             r1 == [r EXCEPT !.head = h, !.buf[h] = elem]
         IN  IF r.count = Cap(r)
             THEN Ok([r1 EXCEPT !.tail = prev(r, r.tail)], <<>>)
             ELSE Ok([r1 EXCEPT !.count = r.count + 1], <<>>)

\* PopFront that reads the element after moving head.
PopFrontReadsLate(r) ==
    IF r.count <= 0
    THEN Panic(r, "empty")
    ELSE Ok([r EXCEPT !.buf[r.head] = Zero,
                      !.head = next(r, r.head),
                      !.count = r.count - 1],
            <<r.buf[next(r, r.head)]>>)

\* PopFront that does not decrement count.
PopFrontKeepsCount(r) ==
    IF r.count <= 0
    THEN Panic(r, "empty")
    ELSE Ok([r EXCEPT !.buf[r.head] = Zero, !.head = next(r, r.head)],
            <<r.buf[r.head]>>)

PopFront(r) ==
    IF r.count <= 0
    THEN Panic(r, "empty")
    ELSE Ok([r EXCEPT !.buf[r.head] = Zero,
                      !.head = next(r, r.head),
                      !.count = r.count - 1],
            <<r.buf[r.head]>>)

\* PopBack that moves tail before testing for an empty ring.
PopBackMovesTailFirst(r) ==
    IF Cap(r) = 0
    THEN Panic(r, "runtime")
    ELSE LET t == prev(r, r.tail)
         IN  IF r.count <= 0
             THEN Panic([r EXCEPT !.tail = t], "empty")
             ELSE Ok([r EXCEPT !.tail = t, !.buf[t] = Zero,
                               !.count = r.count - 1],
                     <<r.buf[t]>>)

PopBack(r) ==
    IF r.count <= 0
    THEN Panic(r, "empty")
    ELSE LET t == prev(r, r.tail)
         IN  Ok([r EXCEPT !.tail = t, !.buf[t] = Zero, !.count = r.count - 1],
                <<r.buf[t]>>)

Front(r) ==
    IF r.count <= 0 THEN Panic(r, "empty") ELSE Ok(r, <<r.buf[r.head]>>)

Back(r) ==
    IF r.count <= 0 THEN Panic(r, "empty") ELSE Ok(r, <<r.buf[prev(r, r.tail)]>>)

\* At that returns the zero value, instead of failing, past the back.
AtZeroPastBack(r, i) ==
    IF i < 0
    THEN Panic(r, "range")
    ELSE IF i >= RingLen(r)
    THEN Ok(r, <<Zero>>)
    ELSE Ok(r, <<r.buf[(r.head + i) % Cap(r)]>>)

At(r, i) ==
    IF i < 0 \/ i >= RingLen(r)
    THEN Panic(r, "range")
    ELSE Ok(r, <<r.buf[(r.head + i) % Cap(r)]>>)

\* Set that counts the index from slot 0 instead of head.
SetIgnoresHead(r, i, item) ==
    IF i < 0 \/ i >= RingLen(r)
    THEN Panic(r, "range")
    ELSE Ok([r EXCEPT !.buf[i % Cap(r)] = item], <<>>)

Set(r, i, item) ==
    IF i < 0 \/ i >= RingLen(r)
    THEN Panic(r, "range")
    ELSE Ok([r EXCEPT !.buf[(r.head + i) % Cap(r)] = item], <<>>)

\* The loop of Rotate for n < 0 (back to front), with k steps left.
RECURSIVE RotateBackToFront(_, _)
RotateBackToFront(r, k) ==
    IF k = 0
    THEN Ok(r, <<>>)
    ELSE LET l  == Cap(r)
             h  == (r.head - 1 + l) % l
             t  == (r.tail - 1 + l) % l
             b1 == [r.buf EXCEPT ![h] = r.buf[t]]
             b2 == [b1 EXCEPT ![t] = Zero]
         IN  RotateBackToFront(Ring(b2, h, t, r.count), k - 1)

\* The loop of Rotate for n > 0 that does not zero the slot it moved from.
RECURSIVE RotateFrontToBackLeavesCopy(_, _)
RotateFrontToBackLeavesCopy(r, k) ==
    IF k = 0
    THEN Ok(r, <<>>)
    ELSE IF r.tail \notin DOMAIN r.buf
    THEN Panic(r, "runtime")
    ELSE LET l  == Cap(r)
             b1 == [r.buf EXCEPT ![r.tail] = r.buf[r.head]]
         IN  RotateFrontToBackLeavesCopy(
                 Ring(b1, (r.head + 1) % l, (r.tail + 1) % l, r.count), k - 1)

\* The loop of Rotate for n > 0 (front to back), with k steps left.
RECURSIVE RotateFrontToBack(_, _)
RotateFrontToBack(r, k) ==
    IF k = 0
    THEN Ok(r, <<>>)
    ELSE IF r.tail \notin DOMAIN r.buf
    THEN Panic(r, "runtime")
    ELSE LET l  == Cap(r)
             b1 == [r.buf EXCEPT ![r.tail] = r.buf[r.head]]
             b2 == [b1 EXCEPT ![r.head] = Zero]
         IN  RotateFrontToBack(
                 Ring(b2, (r.head + 1) % l, (r.tail + 1) % l, r.count), k - 1)

\* Rotate that only moves head and tail, also when the ring is not full.
RotateMovesIndexesOnly(r, n) ==
    IF RingLen(r) <= 1
    THEN Ok(r, <<>>)
    ELSE LET m == GoMod(n, r.count)
             l == Cap(r)
         IN  IF m = 0
             THEN Ok(r, <<>>)
             ELSE Ok([r EXCEPT !.head = (r.head + m + l) % l,
                               !.tail = (r.tail + m + l) % l], <<>>)

\* Rotate that moves the elements also when the ring is full.
RotateAlwaysMoves(r, n) ==
    IF RingLen(r) <= 1
    THEN Ok(r, <<>>)
    ELSE LET m == GoMod(n, r.count)
         IN  IF m = 0
             THEN Ok(r, <<>>)
             ELSE IF m < 0
             THEN RotateBackToFront(r, 0 - m)
             ELSE RotateFrontToBack(r, m)

Rotate(r, n) ==
    IF RingLen(r) <= 1
    THEN Ok(r, <<>>)
    ELSE LET m == GoMod(n, r.count)
             l == Cap(r)
         IN  IF m = 0
             THEN Ok(r, <<>>)
             ELSE IF r.head = r.tail
             THEN LET h == (r.head + m + l) % l
                  IN  Ok([r EXCEPT !.head = h, !.tail = h], <<>>)
             ELSE IF m < 0
             THEN RotateBackToFront(r, 0 - m)
             ELSE RotateFrontToBack(r, m)

\* The loop of Index reducing the slot modulo Len() instead of len(r.buf).
RECURSIVE IndexLoopModLen(_, _, _)
IndexLoopModLen(r, f, i) ==
    IF i >= r.count
    THEN 0 - 1
    ELSE IF r.buf[(r.head + i) % RingLen(r)] \in f
    THEN i
    ELSE IndexLoopModLen(r, f, i + 1)

\* The loop of Index, at index i.
RECURSIVE IndexLoop(_, _, _)
IndexLoop(r, f, i) ==
    IF i >= r.count
    THEN 0 - 1
    ELSE IF r.buf[(r.head + i) % Cap(r)] \in f
    THEN i
    ELSE IndexLoop(r, f, i + 1)

Index(r, f) ==
    IF RingLen(r) > 0 THEN Ok(r, <<IndexLoop(r, f, 0)>>) ELSE Ok(r, <<0 - 1>>)

\* The slot RIndex reads for index i: l is r.Len().
RIndexSlot(r, i) == (r.head + i) % RingLen(r)

\* The loop of RIndex, at index i.
RECURSIVE RIndexLoop(_, _, _)
RIndexLoop(r, f, i) ==
    IF i < 0
    THEN 0 - 1
    ELSE IF r.buf[RIndexSlot(r, i)] \in f
    THEN i
    ELSE RIndexLoop(r, f, i - 1)

RIndex(r, f) ==
    IF RingLen(r) > 0
    THEN Ok(r, <<RIndexLoop(r, f, r.count - 1)>>)
    ELSE Ok(r, <<0 - 1>>)

\* r.buf[a], r.buf[b] = r.buf[b], r.buf[a]
Swap(b, i, j) == [b EXCEPT ![i] = b[j], ![j] = b[i]]

\* The loop of Insert after PushFront making one swap too few.
RECURSIVE InsertFromFrontStopsEarly(_, _, _)
InsertFromFrontStopsEarly(r, front, k) ==
    IF k <= 1
    THEN r
    ELSE LET nx == next(r, front)
         IN  InsertFromFrontStopsEarly(
                 [r EXCEPT !.buf = Swap(r.buf, front, nx)], nx, k - 1)

\* The loop of Insert after PushFront: k swaps left, the item is at front.
RECURSIVE InsertFromFront(_, _, _)
InsertFromFront(r, front, k) ==
    IF k = 0
    THEN r
    ELSE LET nx == next(r, front)
         IN  InsertFromFront([r EXCEPT !.buf = Swap(r.buf, front, nx)], nx, k - 1)

\* The loop of Insert after PushBack: k swaps left, the item is at back.
RECURSIVE InsertFromBack(_, _, _)
InsertFromBack(r, back, k) ==
    IF k = 0
    THEN r
    ELSE LET pv == prev(r, back)
         IN  InsertFromBack([r EXCEPT !.buf = Swap(r.buf, back, pv)], pv, k - 1)

\* Insert that does not test for a full ring (and so overwrites).
InsertOverwritesWhenFull(r, at, item) ==
    IF at < 0 \/ at > r.count
    THEN Panic(r, "range")
    ELSE IF at * 2 < r.count
    THEN LET p == PushFront(r, item)
         IN  IF p.err # "none"
             THEN p
             ELSE Ok(InsertFromFront(p.r, p.r.head, at), <<>>)
    ELSE LET swaps == r.count - at
             p     == PushBack(r, item)
         IN  IF p.err # "none"
             THEN p
             ELSE Ok(InsertFromBack(p.r, prev(p.r, p.r.tail), swaps), <<>>)

\* Insert that makes one swap too many after PushBack.
InsertSwapsOneMore(r, at, item) ==
    IF at < 0 \/ at > r.count
    THEN Panic(r, "range")
    ELSE IF Full(r)
    THEN Panic(r, "full")
    ELSE IF at * 2 < r.count
    THEN LET p == PushFront(r, item)
         IN  IF p.err # "none"
             THEN p
             ELSE Ok(InsertFromFront(p.r, p.r.head, at), <<>>)
    ELSE LET swaps == r.count - at + 1
             p     == PushBack(r, item)
         IN  IF p.err # "none"
             THEN p
             ELSE Ok(InsertFromBack(p.r, prev(p.r, p.r.tail), swaps), <<>>)

Insert(r, at, item) ==
    IF at < 0 \/ at > r.count
    THEN Panic(r, "range")
    ELSE IF Full(r)
    THEN Panic(r, "full")
    ELSE IF at * 2 < r.count
    THEN LET p == PushFront(r, item)
         IN  IF p.err # "none"
             THEN p
             ELSE Ok(InsertFromFront(p.r, p.r.head, at), <<>>)
    ELSE LET swaps == r.count - at
             p     == PushBack(r, item)
         IN  IF p.err # "none"
             THEN p
             ELSE Ok(InsertFromBack(p.r, prev(p.r, p.r.tail), swaps), <<>>)

\* The first loop of Remove moving rm without swapping.
RECURSIVE RemoveToFrontNoSwap(_, _, _)
RemoveToFrontNoSwap(r, rm, k) ==
    IF k = 0
    THEN r
    ELSE RemoveToFrontNoSwap(r, prev(r, rm), k - 1)

\* The first loop of Remove: k swaps left, the removed item is at rm.
RECURSIVE RemoveToFront(_, _, _)
RemoveToFront(r, rm, k) ==
    IF k = 0
    THEN r
    ELSE LET pv == prev(r, rm)
         IN  RemoveToFront([r EXCEPT !.buf = Swap(r.buf, pv, rm)], pv, k - 1)

\* The second loop of Remove moving rm without swapping.
RECURSIVE RemoveToBackNoSwap(_, _, _)
RemoveToBackNoSwap(r, rm, k) ==
    IF k = 0
    THEN r
    ELSE RemoveToBackNoSwap(r, next(r, rm), k - 1)

\* The second loop of Remove: k swaps left, the removed item is at rm.
RECURSIVE RemoveToBack(_, _, _)
RemoveToBack(r, rm, k) ==
    IF k = 0
    THEN r
    ELSE LET nx == next(r, rm)
         IN  RemoveToBack([r EXCEPT !.buf = Swap(r.buf, rm, nx)], nx, k - 1)

Remove(r, at) ==
    IF at < 0 \/ at >= RingLen(r)
    THEN Panic(r, "range")
    ELSE LET rm == (r.head + at) % Cap(r)
         IN  IF at * 2 < r.count
             THEN PopFront(RemoveToFront(r, rm, at))
             ELSE PopBack(RemoveToBack(r, rm, r.count - at - 1))

\* Reset that zeroes Len() slots from slot 0 instead of head.
ResetFromSlotZero(r) ==
    LET l == Cap(r)
        b == [j \in DOMAIN r.buf |->
                 IF \E i \in 0..(RingLen(r) - 1) : i % l = j
                 THEN Zero
                 ELSE r.buf[j]]
    IN  Ok(Ring(b, 0, 0, 0), <<>>)

Reset(r) ==
    LET l == Cap(r)
        h == r.head
        b == [j \in DOMAIN r.buf |->
                 IF \E i \in 0..(RingLen(r) - 1) : (h + i) % l = j
                 THEN Zero
                 ELSE r.buf[j]]
    IN  Ok(Ring(b, 0, 0, 0), <<>>)

\* The slice b[lo:hi] as a sequence.
Slice(b, lo, hi) == [i \in 1..(hi - lo) |-> b[lo + i - 1]]

\* copy(dst, src) returns min(len(dst), len(src)); lenDst is len(dst).
CopyLen(lenDst, src) == Min(lenDst, Len(src))

Resize(r, newSize) ==
    IF r.count = newSize
    THEN Ok(r, <<>>)
    ELSE LET l    == Cap(r)
             src1 == IF r.tail > r.head
                     THEN Slice(r.buf, r.head, r.tail)
                     ELSE Slice(r.buf, r.head, l)
             n1   == CopyLen(newSize, src1)
             src2 == IF r.tail > r.head \/ ~(n1 < l)
                     THEN <<>>
                     ELSE Slice(r.buf, 0, r.tail)
             n2   == CopyLen(newSize - n1, src2)
             n    == n1 + n2
             newBuf == [i \in 0..(newSize - 1) |->
                           IF i < n1 THEN src1[i + 1]
                           ELSE IF i < n THEN src2[i - n1 + 1]
                           ELSE Zero]
         IN  Ok(Ring(newBuf, 0, n, n), <<>>)

(***************************************************************************)
(* The state machine.  A step is one call of one method of the ring; call, *)
(* ret, err and pre record the call, what it returned, how it ended and    *)
(* the ring it was made on.                                                *)
(***************************************************************************)

\* The record of a call: its name and arguments (unused ones are 0 and {}).
Call(name, i, item, f) == [name |-> name, at |-> i, item |-> item, f |-> f]

\* The number of consecutive pushes made since the ring was empty, or -1
\* when something else happened since (or more than MaxPushes pushes).
PushesAfter(name, res) ==
    IF name \in {"PushBack", "PushFront"} /\ res.err = "none"
       /\ pushes >= 0 /\ pushes < MaxPushes
    THEN pushes + 1
    ELSE IF res.r.count = 0 THEN 0 ELSE 0 - 1

\* The run of PushBack calls made on an empty ring (xs, while mode is
\* "push"), and the number k of them taken back by the PopFront calls
\* (mode "popF") or the PopBack calls (mode "popB") that directly follow.
Run(mode, xs, k) == [mode |-> mode, xs |-> xs, k |-> k]

RunAfter(name, item, res) ==
    IF name = "PushBack" /\ res.err = "none" /\ count = 0
    THEN Run("push", <<item>>, 0)
    ELSE IF name = "PushBack" /\ res.err = "none" /\ trk.mode = "push"
            /\ Len(trk.xs) < Cap(R)
    THEN Run("push", Append(trk.xs, item), 0)
    ELSE IF name = "PopFront" /\ res.err = "none"
            /\ trk.mode \in {"push", "popF"} /\ trk.k < Len(trk.xs)
    THEN Run("popF", trk.xs, trk.k + 1)
    ELSE IF name = "PopBack" /\ res.err = "none"
            /\ trk.mode \in {"push", "popB"} /\ trk.k < Len(trk.xs)
    THEN Run("popB", trk.xs, trk.k + 1)
    ELSE IF res.r.count = 0
    THEN Run("push", <<>>, 0)
    ELSE Run("idle", <<>>, 0)

\* The call c, with result res, is made on the current ring.
Step(c, res) ==
    /\ buf' = res.r.buf
    /\ head' = res.r.head
    /\ tail' = res.r.tail
    /\ count' = res.r.count
    /\ call' = c
    /\ ret' = res.ret
    /\ err' = res.err
    /\ pre' = R
    /\ pushes' = PushesAfter(c.name, res)
    /\ trk' = RunAfter(c.name, c.item, res)

Init ==
    \E capacity \in Caps :
        /\ buf = New(capacity).buf
        /\ head = New(capacity).head
        /\ tail = New(capacity).tail
        /\ count = New(capacity).count
        /\ call = Call("New", capacity, Zero, {})
        /\ ret = <<>>
        /\ err = "none"
        /\ pre = New(capacity)
        /\ pushes = 0
        /\ trk = Run("push", <<>>, 0)

CallPushBack ==
    \E elem \in Elems : Step(Call("PushBack", 0, elem, {}), PushBack(R, elem))

CallPushFront ==
    \E elem \in Elems : Step(Call("PushFront", 0, elem, {}), PushFront(R, elem))

CallPopFront == Step(Call("PopFront", 0, Zero, {}), PopFront(R))

CallPopBack == Step(Call("PopBack", 0, Zero, {}), PopBack(R))

CallFront == Step(Call("Front", 0, Zero, {}), Front(R))

CallBack == Step(Call("Back", 0, Zero, {}), Back(R))

CallAt == \E i \in Indexes : Step(Call("At", i, Zero, {}), At(R, i))

CallSet ==
    \E i \in Indexes, item \in Elems :
        Step(Call("Set", i, item, {}), Set(R, i, item))

CallRotate == \E n \in Rotations : Step(Call("Rotate", n, Zero, {}), Rotate(R, n))

CallIndex == \E f \in Preds : Step(Call("Index", 0, Zero, f), Index(R, f))

CallRIndex == \E f \in Preds : Step(Call("RIndex", 0, Zero, f), RIndex(R, f))

CallInsert ==
    \E at \in Indexes, item \in Elems :
        Step(Call("Insert", at, item, {}), Insert(R, at, item))

CallRemove == \E at \in Indexes : Step(Call("Remove", at, Zero, {}), Remove(R, at))

CallReset == Step(Call("Reset", 0, Zero, {}), Reset(R))

CallResize ==
    \E newSize \in Caps :
        Step(Call("Resize", newSize, Zero, {}), Resize(R, newSize))

\* Every method but Resize.
Next ==
    \/ CallPushBack
    \/ CallPushFront
    \/ CallPopFront
    \/ CallPopBack
    \/ CallFront
    \/ CallBack
    \/ CallAt
    \/ CallSet
    \/ CallRotate
    \/ CallIndex
    \/ CallRIndex
    \/ CallInsert
    \/ CallRemove
    \/ CallReset

Spec == Init /\ [][Next]_vars

\* Every method.
NextResize ==
    \/ Next
    \/ CallResize

SpecResize == Init /\ [][NextResize]_vars

(***************************************************************************)
(* What the claims speak of.                                               *)
(***************************************************************************)

\* The logical contents of r, front to back: position i is in slot
\* (head + i) mod capacity.
Contents(r) == [i \in 1..r.count |-> r.buf[(r.head + (i - 1)) % Cap(r)]]

\* s[a..b] of a sequence s, 1-based; empty when a > b.
Sub(s, a, b) == [i \in 1..(b - a + 1) |-> s[a + i - 1]]

\* The model keeps the ring's types.
TypeOK ==
    /\ DOMAIN buf = 0..(Cap(R) - 1)
    /\ \A i \in DOMAIN buf : buf[i] \in Elems
    /\ head \in 0..MaxCap
    /\ tail \in 0..MaxCap
    /\ count \in 0..Cap(R)
    /\ Cap(R) > 0 => head < Cap(R)

\* The positions of r whose element f accepts.
Matches(r, f) == {i \in 0..(r.count - 1) : Contents(r)[i + 1] \in f}

\* The smallest and the largest member of a non-empty set of integers.
Least(S) == CHOOSE i \in S : \A j \in S : i <= j
Greatest(S) == CHOOSE i \in S : \A j \in S : i >= j

C3_FifoLifo ==
    LET k == Len(trk.xs)
    IN  /\ trk.mode = "popF" =>
               /\ err = "none"
               /\ ret = <<trk.xs[trk.k]>>
               /\ trk.k = k => count = 0
        /\ trk.mode = "popB" =>
               /\ err = "none"
               /\ ret = <<trk.xs[k + 1 - trk.k]>>
               /\ trk.k = k => count = 0

\* Three elements, not all equal, pushed on an empty ring have all been
\* popped from the front, the last of them from slot 0: they wrapped around
\* the end of the buffer.
C3_Witness ==
    /\ trk.mode = "popF"
    /\ Len(trk.xs) >= 3
    /\ trk.k = Len(trk.xs)
    /\ trk.xs[1] # trk.xs[3]
    /\ pre.head = 0

C5_RemoveResult ==
    LET s == Contents(pre)
        n == pre.count
    IN  (call.name = "Remove" /\ n >= 1 /\ call.at >= 0 /\ call.at < n) =>
            /\ err = "none"
            /\ Cap(R) = Cap(pre)
            /\ ret = <<s[call.at + 1]>>
            /\ count = n - 1
            /\ Contents(R) = Sub(s, 1, call.at) \o Sub(s, call.at + 2, n)

\* A Remove in the back half, not at the back, of a full ring whose front
\* is not in slot 0.
C5_Witness ==
    /\ call.name = "Remove"
    /\ err = "none"
    /\ Full(pre)
    /\ pre.head # 0
    /\ call.at * 2 >= pre.count
    /\ call.at < pre.count - 1
    /\ Contents(pre)[call.at + 1] # Contents(pre)[call.at + 2]

\* C6: Rotate(n) returns, leaves Len() unchanged and makes the new At(i)
\* the old At((i + n) mod Len()) for every 0 <= i < Len().
C6_RotateCorrect ==
    call.name = "Rotate" =>
        /\ err = "none"
        /\ Cap(R) = Cap(pre)
        /\ count = pre.count
        /\ \A i \in 0..(count - 1) :
               Contents(R)[i + 1] = Contents(pre)[((i + call.at) % count) + 1]

\* A back-to-front rotation by more than one step of a partially filled
\* ring whose elements are not all equal.
C6_Witness ==
    /\ call.name = "Rotate"
    /\ err = "none"
    /\ ~Full(pre)
    /\ pre.count >= 3
    /\ call.at < 0
    /\ (0 - call.at) % pre.count = 2
    /\ Contents(pre)[1] # Contents(pre)[2]

\* C7: RIndex(f) returns the largest i in [0, Len()) with f(At(i)), or -1
\* when there is none.
C7_RIndexLast ==
    call.name = "RIndex" =>
        /\ err = "none"
        /\ ret = <<IF Matches(pre, call.f) = {}
                   THEN 0 - 1
                   ELSE Greatest(Matches(pre, call.f))>>

\* C8: Index(f) returns the smallest i in [0, Len()) with f(At(i)), or -1
\* when there is none.
C8_IndexFirst ==
    call.name = "Index" =>
        /\ err = "none"
        /\ ret = <<IF Matches(pre, call.f) = {}
                   THEN 0 - 1
                   ELSE Least(Matches(pre, call.f))>>

\* Index found its first match past the front of a partially filled ring
\* whose elements wrap around the end of the buffer, with a later match too.
C8_Witness ==
    /\ call.name = "Index"
    /\ ~Full(pre)
    /\ pre.head + pre.count > Cap(pre)
    /\ ret = <<1>>
    /\ Cardinality(Matches(pre, call.f)) >= 2

\* C9: Resize(newCapacity) makes Len() min(n, newCapacity) and leaves the
\* first min(n, newCapacity) elements of s, in order.
C9_ResizePreserves ==
    LET s == Contents(pre)
        m == Min(pre.count, call.at)
    IN  call.name = "Resize" =>
            /\ err = "none"
            /\ count = m
            /\ Contents(R) = Sub(s, 1, m)

\* C10: after Resize(newCapacity), Cap() is newCapacity.
C10_ResizeSetsCap ==
    call.name = "Resize" => (err = "none" /\ Cap(R) = call.at)

\* The number of logical positions of r that hold e.
Occurrences(r, e) == Cardinality({i \in 1..r.count : Contents(r)[i] = e})

\* C11: whenever the capacity is > 0, 0 <= head < capacity and
\* 0 <= tail < capacity.
C11_IndexRange ==
    Cap(R) > 0 =>
        /\ 0 <= head /\ head < Cap(R)
        /\ 0 <= tail /\ tail < Cap(R)

\* C12: PushBack and PushFront return on every ring, also on a ring of
\* capacity zero.
C12_PushTotal ==
    call.name \in {"PushBack", "PushFront"} => err = "none"

\* C13: Rotate(n) returns, leaves Len() unchanged and keeps the number of
\* occurrences of every element among the logical elements.
C13_RotateTotal ==
    call.name = "Rotate" =>
        /\ err = "none"
        /\ count = pre.count
        /\ \A e \in Elems : Occurrences(R, e) = Occurrences(pre, e)

\* C14: on an empty ring Front, Back, PopFront and PopBack fail with the
\* empty-buffer failure, and head, tail, count and every slot are as before.
C14_EmptyFailures ==
    (call.name \in {"Front", "Back", "PopFront", "PopBack"} /\ pre.count = 0) =>
        /\ err = "empty"
        /\ ret = <<>>
        /\ R = pre

\* PopBack failed on a ring that pops had emptied, its head not in slot 0.
C14_Witness ==
    /\ call.name = "PopBack"
    /\ err = "empty"
    /\ pre.count = 0
    /\ Cap(pre) >= 2
    /\ pre.head # 0

\* C15: At(i), Set(i, v) and Remove(i) fail with the out-of-range failure
\* for i < 0 and i >= Len(), Insert(i, v) on a ring that is not full for
\* i < 0 and i > Len(); head, tail, count and every slot are as before.
C15_RangeFailures ==
    /\ (call.name \in {"At", "Set", "Remove"}
            /\ (call.at < 0 \/ call.at >= pre.count)) =>
           /\ err = "range"
           /\ ret = <<>>
           /\ R = pre
    /\ (call.name = "Insert" /\ ~Full(pre)
            /\ (call.at < 0 \/ call.at > pre.count)) =>
           /\ err = "range"
           /\ ret = <<>>
           /\ R = pre

\* At(Len()) failed on a ring that is neither empty nor full and whose
\* head is not in slot 0: the slot it names holds no element.
C15_Witness ==
    /\ call.name = "At"
    /\ err = "range"
    /\ call.at = pre.count
    /\ pre.count >= 1
    /\ ~Full(pre)
    /\ pre.head # 0

\* C16, as claimed: Insert(at, v) on a full ring fails with the full-buffer
\* failure for every at, in range or not, and leaves the ring as it was.
C16_FullWhateverAt ==
    (call.name = "Insert" /\ Full(pre)) => (err = "full" /\ R = pre)

\* C16, amended: Insert(at, v) on a full ring fails and leaves the ring as
\* it was; the failure is the full-buffer one for 0 <= at <= Len() and the
\* out-of-range one for the other at.
C16_InsertOnFull ==
    (call.name = "Insert" /\ Full(pre)) =>
        /\ err = (IF call.at >= 0 /\ call.at <= pre.count
                  THEN "full"
                  ELSE "range")
        /\ ret = <<>>
        /\ R = pre

\* Insert in the middle of a full ring of two or more elements failed with
\* the full-buffer failure.
C16_Witness ==
    /\ call.name = "Insert"
    /\ err = "full"
    /\ Full(pre)
    /\ Cap(pre) >= 2
    /\ call.at = 1
    /\ call.item # Contents(pre)[1]

\* C17: after Set(i, v) with 0 <= i < Len(), At(i) returns v, At(j) returns
\* what it returned before for every other j, and Len(), Cap(), head and
\* tail are as before.
C17_SetRoundTrip ==
    (call.name = "Set" /\ call.at >= 0 /\ call.at < pre.count) =>
        /\ err = "none"
        /\ At(R, call.at) = Ok(R, <<call.item>>)
        /\ \A j \in 0..(pre.count - 1) :
               j # call.at => At(R, j).ret = At(pre, j).ret
        /\ count = pre.count
        /\ Cap(R) = Cap(pre)
        /\ head = pre.head
        /\ tail = pre.tail

\* Set changed an element that lies past the end of the buffer (its slot is
\* before head's), in a ring of two or more elements.
C17_Witness ==
    /\ call.name = "Set"
    /\ err = "none"
    /\ pre.count >= 2
    /\ call.at >= 1
    /\ call.at < pre.count
    /\ pre.head + call.at >= Cap(pre)
    /\ At(pre, call.at).ret # <<call.item>>

\* C18: after Reset(), Len() is 0, Cap() is as before, head and tail are 0
\* and every slot of the buffer holds the zero value.
C18_ResetClears ==
    call.name = "Reset" =>
        /\ err = "none"
        /\ count = 0
        /\ Cap(R) = Cap(pre)
        /\ head = 0
        /\ tail = 0
        /\ \A i \in DOMAIN buf : buf[i] = Zero

\* Reset was called on a ring of two or more non-zero elements that wrap
\* around the end of the buffer.
C18_Witness ==
    /\ call.name = "Reset"
    /\ pre.count >= 2
    /\ pre.head + pre.count > Cap(pre)
    /\ \A i \in 1..pre.count : Contents(pre)[i] # Zero

SameOutcome(p) ==
    /\ (err = "none") = (p.err = "none")
    /\ count = p.r.count
    /\ Contents(R) = Contents(p.r)

Occupied(r) == {(r.head + i) % Cap(r) : i \in 0..(r.count - 1)}

\* C21: on a ring of capacity C >= 1, 0 <= count <= C and
\* tail = (head + count) mod C; so head = tail exactly when the ring is
\* empty or full.
C21_HeadTailCount ==
    Cap(R) >= 1 =>
        /\ 0 <= count /\ count <= Cap(R)
        /\ tail = (head + count) % Cap(R)
        /\ (head = tail) <=> (count = 0 \/ count = Cap(R))

\* A ring neither empty nor full whose elements wrap around the end of the
\* buffer (tail is before head), left so by a Rotate that moved elements.
C21_Witness ==
    /\ call.name = "Rotate"
    /\ R # pre
    /\ count >= 2
    /\ count < Cap(R)
    /\ tail < head

\* C22: every slot that is not one of the count slots (head + i) mod
\* capacity, 0 <= i < count, holds the zero value.
C22_NoStale ==
    \A j \in DOMAIN buf : j \notin Occupied(R) => buf[j] = Zero

\* A Remove from the middle of three or more non-zero elements left a ring
\* with a slot that holds no element.
C22_Witness ==
    /\ call.name = "Remove"
    /\ err = "none"
    /\ pre.count >= 3
    /\ call.at >= 1
    /\ call.at < pre.count - 1
    /\ \A i \in 1..pre.count : Contents(pre)[i] # Zero
    /\ Occupied(R) # DOMAIN buf

====
